---- MODULE Spec2Model ----
(***************************************************************************)
(* Flux transcription server (transcriber/server.py): a startup phase that *)
(* loads the ASR pipeline, then a single-threaded HTTPServer whose handler *)
(* answers GET /health and POST /transcribe.                               *)
(*                                                                         *)
(* Environment faults are nondeterministic outcomes of the calls that can  *)
(* raise: rfile.read, tempfile.mkstemp, the temp-file write, the pipeline, *)
(* the socket write of a response, and os.remove.  A socket that failed    *)
(* once stays broken.  An exception that leaves the handler is caught by   *)
(* the standard library's serving loop, which goes on to the next request. *)
(* KeyboardInterrupt is delivered while the loop waits for a connection.   *)
(***************************************************************************)
EXTENDS Integers, Sequences, FiniteSets, TLC

VARIABLES
    phase,          \* "loading" | "aborted" | "loaded" | "serving" | "exited" | "closed"
    pipe,           \* module global `pipe`: "unset" | "ready"
    listener,       \* TRUE while the HTTPServer socket is bound
    backlog,        \* connections waiting in the listen queue
    nreq,           \* requests accepted so far
    handlers,       \* request id -> state of the TranscribeHandler serving it
    fs,             \* temp-file path -> content of the files that exist
    removeFailed,   \* paths on which os.remove raised
    hadFailure      \* some finished POST /transcribe did not start with a 200

vars == <<phase, pipe, listener, backlog, nreq, handlers, fs, removeFailed, hadFailure>>

\* ---------------------------------------------------------------- bounds
MaxRequests == 3
MaxBacklog == 2

\* ---------------------------------------------------------------- inputs
Methods == {"GET", "POST"}
Paths == {"/health", "/transcribe", "/other", "/health?x=1", "/transcribe/"}

\* The Content-Length header as the handler sees it: absent, or its characters.
NoHeader == [present |-> FALSE, value |-> <<>>]
Header(v) == [present |-> TRUE, value |-> v]
Headers ==
    {NoHeader, Header(<<"0">>), Header(<<"1">>), Header(<<"2">>),
     Header(<<"a", "b">>), Header(<<>>), Header(<<"-", "1">>)}

\* Request bodies, in chunks; a clip the pipeline can decode is header + data.
ValidClip == <<"RIFF", "data">>
Bodies == {<<>>, <<"junk">>, <<"RIFF">>, ValidClip}

\* ---------------------------------------------------------------- helpers
None == 0

Digit == [c \in {"0", "1", "2", "3", "4", "5", "6", "7", "8", "9"} |->
            CASE c = "0" -> 0 [] c = "1" -> 1 [] c = "2" -> 2 [] c = "3" -> 3
              [] c = "4" -> 4 [] c = "5" -> 5 [] c = "6" -> 6 [] c = "7" -> 7
              [] c = "8" -> 8 [] c = "9" -> 9]

RECURSIVE DigitsValue(_, _)
DigitsValue(s, acc) ==
    IF s = <<>> THEN acc ELSE DigitsValue(Tail(s), 10 * acc + Digit[Head(s)])

AllDigits(s) == s # <<>> /\ \A i \in 1..Len(s) : s[i] \in DOMAIN Digit

\* int(str): an optional sign and at least one digit, else ValueError.
int(s) ==
    IF AllDigits(s) THEN [ok |-> TRUE, val |-> DigitsValue(s, 0)]
    ELSE IF s # <<>> /\ Head(s) \in {"-", "+"} /\ AllDigits(Tail(s))
         THEN [ok |-> TRUE,
               val |-> IF Head(s) = "-" THEN 0 - DigitsValue(Tail(s), 0)
                       ELSE DigitsValue(Tail(s), 0)]
         ELSE [ok |-> FALSE, val |-> 0]

\* int(self.headers.get("Content-Length", 0))
ContentLength(h) == IF h.present THEN int(h.value) ELSE [ok |-> TRUE, val |-> 0]

\* rfile.read(n): n chunks of what the client sent; a negative n reads to EOF.
Read(sent, n) ==
    IF n < 0 \/ n >= Len(sent) THEN sent ELSE SubSeq(sent, 1, n)

\* Whether the pipeline can decode the bytes of a file.
Decodable(bytes) ==
    Len(bytes) >= 2 /\ bytes[1] = "RIFF" /\ bytes[2] = "data"

Transcript == "hello"

Response(code, key, value) == [status |-> code, key |-> key, value |-> value]
Ready == Response(200, "status", "ready")
NotFound == Response(404, "error", "not found")

Restrict(f, S) == [x \in S |-> f[x]]

\* A handler object right after the request line has been parsed.
NewHandler(m, p) ==
    [method |-> m, path |-> p, pc |-> "dispatch",
     header |-> NoHeader, audio_data |-> <<>>, tmp_path |-> None,
     exc |-> "none", text |-> "",
     started |-> <<>>, delivered |-> <<>>, broken |-> FALSE,
     preRaised |-> FALSE, escaped |-> FALSE,
     bodyRead |-> FALSE, pipeCalled |-> FALSE]

\* _send_json: send_response starts the response; the socket write delivers it
\* or raises.  Returns the handler and whether the call raised.
send_json(h, code, key, value, writeOk) ==
    LET r == Response(code, key, value)
        ok == writeOk /\ ~h.broken
    IN  [h |-> [h EXCEPT !.started = Append(@, r),
                         !.delivered = IF ok THEN Append(@, r) ELSE @,
                         !.broken = ~ok],
         raised |-> ~ok]

Active == DOMAIN handlers
At(r, loc) == r \in Active /\ handlers[r].pc = loc
Set(r, h) == handlers' = [handlers EXCEPT ![r] = h]

\* ---------------------------------------------------------------- startup
Init ==
    /\ phase = "loading"
    /\ pipe = "unset"
    /\ listener = FALSE
    /\ backlog = 0
    /\ nreq = 0
    /\ handlers = <<>>
    /\ fs = <<>>
    /\ removeFailed = {}
    /\ hadFailure = FALSE

\* pipeline(...) returns: the module finishes loading.
LoadModelOk ==
    /\ phase = "loading"
    /\ phase' = "loaded"
    /\ pipe' = "ready"
    /\ UNCHANGED <<listener, backlog, nreq, handlers, fs, removeFailed, hadFailure>>

\* The load failure printed but not re-raised: the module goes on without `pipe`.
LoadModelFail_swallowed ==
    /\ phase = "loading"
    /\ phase' = "loaded"
    /\ UNCHANGED <<pipe, listener, backlog, nreq, handlers, fs, removeFailed, hadFailure>>

\* pipeline(...) raises: the diagnostic is printed and the exception re-raised.
LoadModelFail ==
    /\ phase = "loading"
    /\ phase' = "aborted"
    /\ UNCHANGED <<pipe, listener, backlog, nreq, handlers, fs, removeFailed, hadFailure>>

\* main(): HTTPServer((HOST, PORT), ...) binds, or raises OSError and the process exits.
main ==
    /\ phase = "loaded"
    /\ \E bound \in BOOLEAN :
         /\ phase' = IF bound THEN "serving" ELSE "exited"
         /\ listener' = bound
    /\ UNCHANGED <<pipe, backlog, nreq, handlers, fs, removeFailed, hadFailure>>

\* A client connects to the bound socket.
ClientConnect ==
    /\ listener
    /\ backlog < MaxBacklog
    /\ backlog' = backlog + 1
    /\ UNCHANGED <<phase, pipe, listener, nreq, handlers, fs, removeFailed, hadFailure>>

\* A threading server: a connection is taken while a handler is still running.
Accept_threading ==
    /\ phase = "serving"
    /\ backlog > 0
    /\ nreq < MaxRequests
    /\ \E m \in Methods, p \in Paths :
         handlers' = (nreq + 1 :> NewHandler(m, p)) @@ handlers
    /\ nreq' = nreq + 1
    /\ backlog' = backlog - 1
    /\ UNCHANGED <<phase, pipe, listener, fs, removeFailed, hadFailure>>

\* serve_forever(): take the next connection once the previous handler has returned.
Accept ==
    /\ phase = "serving"
    /\ Active = {}
    /\ backlog > 0
    /\ nreq < MaxRequests
    /\ \E m \in Methods, p \in Paths :
         handlers' = (nreq + 1 :> NewHandler(m, p)) @@ handlers
    /\ nreq' = nreq + 1
    /\ backlog' = backlog - 1
    /\ UNCHANGED <<phase, pipe, listener, fs, removeFailed, hadFailure>>

\* KeyboardInterrupt in serve_forever(): main prints and closes the server.
KeyboardInterrupt ==
    /\ phase = "serving"
    /\ Active = {}
    /\ phase' = "closed"
    /\ listener' = FALSE
    /\ backlog' = 0
    /\ UNCHANGED <<pipe, nreq, handlers, fs, removeFailed, hadFailure>>

\* ---------------------------------------------------------------- handler
Others == <<phase, pipe, listener, backlog, nreq, removeFailed, hadFailure>>

\* Leave the try block with exception e raised by a step before the response.
Raise(h, e) == [h EXCEPT !.exc = e, !.preRaised = TRUE, !.pc = "except"]

\* A health check that stops reporting ready after a failed transcription.
do_GET_unhealthy(r) ==
    /\ At(r, "dispatch")
    /\ handlers[r].method = "GET"
    /\ \E writeOk \in BOOLEAN :
         LET h == handlers[r]
             res == IF h.path = "/health" /\ ~hadFailure
                    THEN send_json(h, 200, "status", "ready", writeOk)
                    ELSE IF h.path = "/health"
                    THEN send_json(h, 503, "status", "degraded", writeOk)
                    ELSE send_json(h, 404, "error", "not found", writeOk)
         IN  Set(r, [res.h EXCEPT !.pc = "finished", !.escaped = res.raised])
    /\ UNCHANGED <<fs>>
    /\ UNCHANGED Others

\* A path test by prefix instead of equality.
do_GET_prefix(r) ==
    /\ At(r, "dispatch")
    /\ handlers[r].method = "GET"
    /\ \E writeOk \in BOOLEAN :
         LET h == handlers[r]
             res == IF h.path \in {"/health", "/health?x=1"}
                    THEN send_json(h, 200, "status", "ready", writeOk)
                    ELSE send_json(h, 404, "error", "not found", writeOk)
         IN  Set(r, [res.h EXCEPT !.pc = "finished", !.escaped = res.raised])
    /\ UNCHANGED <<fs>>
    /\ UNCHANGED Others

do_GET(r) ==
    /\ At(r, "dispatch")
    /\ handlers[r].method = "GET"
    /\ \E writeOk \in BOOLEAN :
         LET h == handlers[r]
             res == IF h.path = "/health"
                    THEN send_json(h, 200, "status", "ready", writeOk)
                    ELSE send_json(h, 404, "error", "not found", writeOk)
         IN  Set(r, [res.h EXCEPT !.pc = "finished", !.escaped = res.raised])
    /\ UNCHANGED <<fs>>
    /\ UNCHANGED Others

\* Lines 65-67: tmp_path = None, then the Content-Length header is parsed in the try.
ParseLength(r, h) ==
    \E hd \in Headers :
        LET g == [h EXCEPT !.header = hd, !.tmp_path = None]
        IN  Set(r, IF ContentLength(hd).ok THEN [g EXCEPT !.pc = "read"]
                   ELSE Raise(g, "ValueError"))

\* The 404 branch without its return: the request goes on into the try block.
do_POST_noreturn(r) ==
    /\ At(r, "dispatch")
    /\ handlers[r].method = "POST"
    /\ LET h == handlers[r]
       IN  IF h.path # "/transcribe"
           THEN \E writeOk \in BOOLEAN :
                  LET res == send_json(h, 404, "error", "not found", writeOk)
                  IN  IF res.raised
                      THEN Set(r, [res.h EXCEPT !.pc = "finished", !.escaped = TRUE])
                      ELSE ParseLength(r, res.h)
           ELSE ParseLength(r, h)
    /\ UNCHANGED <<fs>>
    /\ UNCHANGED Others

\* The Content-Length header parsed before the try block is entered.
do_POST_unguarded(r) ==
    /\ At(r, "dispatch")
    /\ handlers[r].method = "POST"
    /\ LET h == handlers[r]
       IN  IF h.path # "/transcribe"
           THEN \E writeOk \in BOOLEAN :
                  LET res == send_json(h, 404, "error", "not found", writeOk)
                  IN  Set(r, [res.h EXCEPT !.pc = "finished", !.escaped = res.raised])
           ELSE \E hd \in Headers :
                  LET g == [h EXCEPT !.header = hd, !.tmp_path = None]
                  IN  Set(r, IF ContentLength(hd).ok THEN [g EXCEPT !.pc = "read"]
                             ELSE [g EXCEPT !.exc = "ValueError", !.preRaised = TRUE,
                                            !.escaped = TRUE, !.pc = "finished"])
    /\ UNCHANGED <<fs>>
    /\ UNCHANGED Others

do_POST(r) ==
    /\ At(r, "dispatch")
    /\ handlers[r].method = "POST"
    /\ LET h == handlers[r]
       IN  IF h.path # "/transcribe"
           THEN \E writeOk \in BOOLEAN :
                  LET res == send_json(h, 404, "error", "not found", writeOk)
                  IN  Set(r, [res.h EXCEPT !.pc = "finished", !.escaped = res.raised])
           ELSE ParseLength(r, h)
    /\ UNCHANGED <<fs>>
    /\ UNCHANGED Others

\* audio_data = self.rfile.read(content_length)
ReadBody(r) ==
    /\ At(r, "read")
    /\ \E sent \in Bodies, readOk \in BOOLEAN :
         LET h == [handlers[r] EXCEPT !.bodyRead = TRUE]
         IN  Set(r, IF readOk
                    THEN [h EXCEPT !.audio_data = Read(sent, ContentLength(h.header).val),
                                   !.pc = "mkstemp"]
                    ELSE Raise(h, "ConnectionError"))
    /\ UNCHANGED <<fs>>
    /\ UNCHANGED Others

\* fd, tmp_path = tempfile.mkstemp(suffix=".wav"): a fresh, empty file.
Mkstemp(r) ==
    /\ At(r, "mkstemp")
    /\ \E made \in BOOLEAN :
         IF made
         THEN /\ Set(r, [handlers[r] EXCEPT !.tmp_path = r, !.pc = "write"])
              /\ fs' = (r :> <<>>) @@ fs
         ELSE /\ Set(r, Raise(handlers[r], "OSError"))
              /\ UNCHANGED fs
    /\ UNCHANGED Others

\* with os.fdopen(fd, "wb") as f: f.write(audio_data)
WriteTmp(r) ==
    /\ At(r, "write")
    /\ \E written \in BOOLEAN :
         IF written
         THEN /\ Set(r, [handlers[r] EXCEPT !.pc = "infer"])
              /\ fs' = [fs EXCEPT ![handlers[r].tmp_path] = handlers[r].audio_data]
         ELSE /\ Set(r, Raise(handlers[r], "OSError"))
              /\ UNCHANGED fs
    /\ UNCHANGED Others

\* result = pipe(tmp_path); text = result["text"] if result else ""
\* The pipeline reads the file; it raises on bytes it cannot decode, and may
\* raise, return nothing, or return a dict without "text" on any input.
RunInference(r) ==
    /\ At(r, "infer")
    /\ LET h == [handlers[r] EXCEPT !.pipeCalled = TRUE]
       IN  IF pipe # "ready" THEN Set(r, Raise(h, "NameError"))
           ELSE IF ~Decodable(fs[h.tmp_path]) THEN Set(r, Raise(h, "ValueError"))
           ELSE \E result \in {"text", "falsy", "notext", "raise"} :
                  Set(r, CASE result = "text" ->
                                [h EXCEPT !.text = Transcript, !.pc = "send200"]
                           [] result = "falsy" ->
                                [h EXCEPT !.text = "", !.pc = "send200"]
                           [] result = "notext" -> Raise(h, "KeyError")
                           [] result = "raise" -> Raise(h, "RuntimeError"))
    /\ UNCHANGED <<fs>>
    /\ UNCHANGED Others

\* self._send_json(200, {"text": text}), still inside the try.
Send200(r) ==
    /\ At(r, "send200")
    /\ \E writeOk \in BOOLEAN :
         LET res == send_json(handlers[r], 200, "text", handlers[r].text, writeOk)
         IN  Set(r, IF res.raised
                    THEN [res.h EXCEPT !.exc = "BrokenPipeError", !.pc = "except"]
                    ELSE [res.h EXCEPT !.pc = "finally"])
    /\ UNCHANGED <<fs>>
    /\ UNCHANGED Others

\* An except clause that answers with a client-error status.
ExceptHandler_400(r) ==
    /\ At(r, "except")
    /\ \E writeOk \in BOOLEAN :
         LET res == send_json(handlers[r], 400, "error", handlers[r].exc, writeOk)
         IN  Set(r, [res.h EXCEPT !.escaped = res.raised, !.pc = "finally"])
    /\ UNCHANGED <<fs>>
    /\ UNCHANGED Others

\* except Exception as exc: self._send_json(500, {"error": str(exc)})
ExceptHandler(r) ==
    /\ At(r, "except")
    /\ \E writeOk \in BOOLEAN :
         LET res == send_json(handlers[r], 500, "error", handlers[r].exc, writeOk)
         IN  Set(r, [res.h EXCEPT !.escaped = res.raised, !.pc = "finally"])
    /\ UNCHANGED <<fs>>
    /\ UNCHANGED Others

\* Cleanup at the end of the try body instead of in a finally clause.
Finally_success_only(r) ==
    /\ At(r, "finally")
    /\ LET h == handlers[r]
       IN  IF h.exc = "none" /\ h.tmp_path # None /\ h.tmp_path \in DOMAIN fs
           THEN \E removed \in BOOLEAN :
                  IF removed
                  THEN /\ fs' = Restrict(fs, DOMAIN fs \ {h.tmp_path})
                       /\ Set(r, [h EXCEPT !.pc = "finished"])
                       /\ UNCHANGED removeFailed
                  ELSE /\ removeFailed' = removeFailed \cup {h.tmp_path}
                       /\ Set(r, [h EXCEPT !.escaped = TRUE, !.pc = "finished"])
                       /\ UNCHANGED fs
           ELSE /\ Set(r, [h EXCEPT !.pc = "finished"])
                /\ UNCHANGED <<fs, removeFailed>>
    /\ UNCHANGED <<phase, pipe, listener, backlog, nreq, hadFailure>>

\* finally: if tmp_path and os.path.exists(tmp_path): os.remove(tmp_path)
\* os.remove deletes the file, or raises and leaves it.
Finally(r) ==
    /\ At(r, "finally")
    /\ LET h == handlers[r]
       IN  IF h.tmp_path # None /\ h.tmp_path \in DOMAIN fs
           THEN \E removed \in BOOLEAN :
                  IF removed
                  THEN /\ fs' = Restrict(fs, DOMAIN fs \ {h.tmp_path})
                       /\ Set(r, [h EXCEPT !.pc = "finished"])
                       /\ UNCHANGED removeFailed
                  ELSE /\ removeFailed' = removeFailed \cup {h.tmp_path}
                       /\ Set(r, [h EXCEPT !.escaped = TRUE, !.pc = "finished"])
                       /\ UNCHANGED fs
           ELSE /\ Set(r, [h EXCEPT !.pc = "finished"])
                /\ UNCHANGED <<fs, removeFailed>>
    /\ UNCHANGED <<phase, pipe, listener, backlog, nreq, hadFailure>>

\* The handler has returned or raised: the serving loop closes the connection
\* (reporting an escaped exception) and is ready for the next one.
FinishRequest(r) ==
    /\ At(r, "finished")
    /\ handlers' = Restrict(handlers, Active \ {r})
    /\ hadFailure' =
         (hadFailure \/ (/\ handlers[r].method = "POST"
                         /\ handlers[r].path = "/transcribe"
                         /\ (handlers[r].started = <<>>
                             \/ handlers[r].started[1].status # 200)))
    /\ UNCHANGED <<phase, pipe, listener, backlog, nreq, fs, removeFailed>>

Next ==
    \/ LoadModelOk
    \/ LoadModelFail
    \/ main
    \/ ClientConnect
    \/ Accept
    \/ KeyboardInterrupt
    \/ \E r \in Active : do_GET(r)
    \/ \E r \in Active : do_POST(r)
    \/ \E r \in Active : ReadBody(r)
    \/ \E r \in Active : Mkstemp(r)
    \/ \E r \in Active : WriteTmp(r)
    \/ \E r \in Active : RunInference(r)
    \/ \E r \in Active : Send200(r)
    \/ \E r \in Active : ExceptHandler(r)
    \/ \E r \in Active : Finally(r)
    \/ \E r \in Active : FinishRequest(r)

Spec == Init /\ [][Next]_vars

\* ---------------------------------------------------------------- properties
Finished(r) == At(r, "finished")
IsTranscribe(h) == h.method = "POST" /\ h.path = "/transcribe"
Statuses(h) == {h.started[i].status : i \in 1..Len(h.started)}

\* What reaches a client whose connection stays up is what the handler started.
DeliveredIfConnected(h) == ~h.broken => h.delivered = h.started

\* C1: once the model has loaded, and whatever requests came before (failed
\* POST /transcribe requests included), a finished GET whose path is exactly
\* /health was answered with 200 {"status": "ready"} and with nothing else.
C1_HealthReady ==
    \A r \in Active :
        (Finished(r) /\ handlers[r].method = "GET" /\ handlers[r].path = "/health")
            => /\ pipe = "ready"
               /\ handlers[r].started = <<Ready>>
               /\ DeliveredIfConnected(handlers[r])

C1_Witness ==
    \E r \in Active :
        /\ Finished(r)
        /\ handlers[r].method = "GET" /\ handlers[r].path = "/health"
        /\ handlers[r].delivered = <<Ready>>
        /\ hadFailure

\* C2: a finished POST /transcribe was answered 200 with a "text" body exactly
\* when no step before the response raised (Content-Length parse, body read,
\* temp file, inference), and 500 with an "error" body otherwise; no status
\* other than 200 and 500 is ever started for it, and the client receives at
\* most the response that was started first.
C2_TranscribeStatus ==
    \A r \in Active :
        (Finished(r) /\ IsTranscribe(handlers[r])) =>
            LET h == handlers[r]
            IN  /\ h.started # <<>>
                /\ (~h.preRaised) <=>
                       (h.started[1].status = 200 /\ h.started[1].key = "text")
                /\ h.preRaised =>
                       (h.started[1].status = 500 /\ h.started[1].key = "error")
                /\ Statuses(h) \subseteq {200, 500}
                /\ h.delivered \in {<<>>, <<h.started[1]>>}
                /\ (~h.broken) => h.delivered = <<h.started[1]>>

C2_Witness ==
    \E r \in Active :
        /\ Finished(r) /\ IsTranscribe(handlers[r])
        /\ handlers[r].audio_data = ValidClip
        /\ handlers[r].delivered = <<Response(200, "text", Transcript)>>
        /\ hadFailure

C4_NoExceptionEscapes ==
    \A r \in Active :
        /\ ~handlers[r].escaped
        /\ (Finished(r) /\ handlers[r].exc # "none") => 500 \in Statuses(handlers[r])

\* A POST /transcribe whose body is empty or malformed: no Content-Length, one
\* that is zero or not a number, or bytes the pipeline cannot decode.
BadBody(h) ==
    \/ ~h.header.present
    \/ ~ContentLength(h.header).ok
    \/ ContentLength(h.header).val = 0
    \/ (h.bodyRead /\ ~Decodable(h.audio_data))

\* C5: a POST /transcribe with an empty or malformed body is answered with
\* exactly one response, 500 with an "error" body, and the server is still
\* in its serving loop afterwards.
C5_BadBody500 ==
    \A r \in Active :
        (Finished(r) /\ IsTranscribe(handlers[r]) /\ BadBody(handlers[r])) =>
            /\ Len(handlers[r].started) = 1
            /\ handlers[r].started[1].status = 500
            /\ handlers[r].started[1].key = "error"
            /\ DeliveredIfConnected(handlers[r])
            /\ phase = "serving"

C5_Witness ==
    \E r \in Active :
        /\ Finished(r) /\ IsTranscribe(handlers[r])
        /\ ~handlers[r].header.present
        /\ handlers[r].delivered = <<Response(500, "error", "ValueError")>>
        /\ nreq > 1 /\ hadFailure

\* C6: a finished GET whose path is not exactly /health, and a finished POST
\* whose path is not exactly /transcribe, was answered with 404
\* {"error": "not found"} and with nothing else.
C6_UnknownPath404 ==
    \A r \in Active :
        (/\ Finished(r)
         /\ \/ handlers[r].method = "GET" /\ handlers[r].path # "/health"
            \/ handlers[r].method = "POST" /\ handlers[r].path # "/transcribe")
            => /\ handlers[r].started = <<NotFound>>
               /\ DeliveredIfConnected(handlers[r])

C6_Witness ==
    \E r \in Active :
        /\ Finished(r)
        /\ handlers[r].method = "POST" /\ handlers[r].path = "/health"
        /\ handlers[r].delivered = <<NotFound>>

\* C7: a failed model load aborts the process with no listener bound and no
\* request accepted, and the listener is bound and requests are handled only
\* after the model has loaded.
C7_LoadBeforeServe ==
    /\ phase = "aborted" => (~listener /\ backlog = 0 /\ nreq = 0 /\ Active = {})
    /\ (listener \/ backlog > 0 \/ nreq > 0 \/ Active # {}) => pipe = "ready"
    /\ phase \in {"serving", "closed"} => pipe = "ready"

C7_Witness == phase = "aborted" /\ pipe = "unset" /\ ~listener

C9_AtMostOneResponse ==
    \A r \in Active : Len(handlers[r].started) <= 1

\* C10: a GET, and any request answered with 404, reads no body, creates no
\* temp file and never calls the pipeline; only a POST to exactly /transcribe
\* does any of these.  (mkstemp names a request's file after the request.)
C10_OnlyTranscribeHasEffects ==
    \A r \in Active :
        LET h == handlers[r]
            touched == h.bodyRead \/ h.pipeCalled \/ h.tmp_path # None
                       \/ r \in DOMAIN fs
        IN  /\ (h.method = "GET" \/ 404 \in Statuses(h)) => ~touched
            /\ touched => IsTranscribe(h)

C10_Witness ==
    \E r \in Active :
        /\ Finished(r)
        /\ handlers[r].method = "GET" /\ handlers[r].path = "/transcribe"
        /\ handlers[r].delivered = <<NotFound>>
        /\ ~handlers[r].bodyRead
        /\ DOMAIN fs = {}
====
